---------------------------- MODULE Spec2Model ----------------------------
(***************************************************************************)
(* A model of Hw#2/starter_part4.py: the decoder-only transformer language *)
(* model trainer.  Six parts of the program are modelled, each with its    *)
(* own specification over the shared variables:                            *)
(*   SpecAttention  the causal mask and the masking step of attention      *)
(*   SpecScheduler  the CosineWithRestarts learning-rate scheduler         *)
(*   SpecDataset    WikiDataset, the batches of the loader and collate_fn  *)
(*   SpecTrain      train_model, validate and test                         *)
(*   SpecGetModel   get_model and the construction of the Transformer      *)
(*   SpecDecoder    Decoder.forward and DecoderLayer.forward               *)
(* A part that a specification does not exercise keeps its idle value.     *)
(***************************************************************************)
EXTENDS Integers, Sequences, FiniteSets

VARIABLES
    \* ---- attention(q, k, v, d_k, mask) on one batch ----
    a_pc,           \* position in the forward pass
    size,           \* input_text.size(1), the sequence length of the batch
    mask,           \* the tensor returned by no_peak_mask(size)
    scores,         \* q k^T / sqrt(d_k), before masking
    softmax_in,     \* scores after masked_fill, the argument of F.softmax
    attends,        \* the (i, j) that get a weight > 0 from F.softmax
    \* ---- CosineWithRestarts ----
    s_pc,           \* "absent", "constructing", "running" or "raised"
    T_max, factor,
    last_epoch, last_restart, cycle_counter, cycle_factor,
    updated_cycle_len, initialized,
    lr,             \* the value of the last get_lr(), as a phase (see Phase)
    \* ---- WikiDataset, DataLoader and collate_fn ----
    d_pc,           \* "idle", "new", "dataset", "iter" or "collated"
    data,           \* the token sequence given to WikiDataset
    block_size,
    batchsize,      \* opt.batchsize
    blocks,         \* WikiDataset.data, the list of blocks
    perm,           \* the order of the indices drawn by the shuffling loader
    pos,            \* how many indices of perm have been served
    batch,          \* the examples [dataset[i] for i in the batch's indices]
    inputs,         \* collate_fn(batch)[0], a list of rows
    targets,        \* collate_fn(batch)[1], a list of rows
    \* ---- train_model, validate, test ----
    t_pc,           \* position in main / train_model / validate / test
    epochs,         \* opt.epochs
    SGDR,           \* opt.SGDR
    n_train,        \* len(train_dataloader)
    n_valid,        \* len(valid_dataloader)
    n_test,         \* len(test_dataloader)
    epoch,          \* the loop variable of train_model
    batch_i,        \* batches of the current training pass already taken
    eval_kind,      \* "none", "validate" or "test"
    eval_i,         \* batches of the current evaluation pass already taken
    mode,           \* model.training: "train" or "eval"
    grads,          \* the .grad of the parameters: "none", "zero", "loss"
    params,         \* how many updates the parameters have received
    opt_steps,      \* the step count of the optimizer state
    batch_trace,    \* the steps taken so far for the current training batch
    validations,    \* completed calls of validate
    history,        \* len(train_losses) = len(valid_losses) = ...
    checkpoints,    \* the k of the files model_epoch_k.pth written
    \* ---- get_model ----
    g_pc,           \* position in get_model and the constructors it calls
    d_model, heads, \* opt.d_model, opt.heads
    dropout,        \* opt.dropout, in tenths
    loadname,       \* opt.loadname is not None
    ckpt_matches,   \* the file of opt.loadname fits the model's parameters
    built,          \* Transformer(...) has returned a model
    ckpt_read,      \* torch.load(opt.loadname) has been called
    params_init,    \* nn.init.xavier_uniform_ has been applied
    error,          \* the exception that ended get_model, or "none"
    \* ---- Decoder.forward and DecoderLayer.forward ----
    l_pc,           \* position in Decoder.forward / DecoderLayer.forward
    trg,            \* the token ids given to Decoder.forward
    N,              \* Decoder.N, the number of layers
    layer_i,        \* the loop variable i of Decoder.forward
    x_in,           \* the argument x of the running DecoderLayer.forward
    x_loc,          \* the local x, as the modules applied to trg, in order
    x2_loc          \* the local x2 of DecoderLayer.forward, likewise

attnVars  == <<a_pc, size, mask, scores, softmax_in, attends>>
schedVars == <<s_pc, T_max, factor, last_epoch, last_restart, cycle_counter,
               cycle_factor, updated_cycle_len, initialized, lr>>
dataVars  == <<d_pc, data, block_size, batchsize, blocks, perm, pos, batch,
               inputs, targets>>
trainVars == <<t_pc, epochs, SGDR, n_train, n_valid, n_test, epoch, batch_i,
               eval_kind, eval_i, mode, grads, params, opt_steps,
               batch_trace, validations, history, checkpoints>>
modelVars == <<g_pc, d_model, heads, dropout, loadname, ckpt_matches, built,
               ckpt_read, params_init, error>>
layerVars == <<l_pc, trg, N, layer_i, x_in, x_loc, x2_loc>>
vars == <<attnVars, schedVars, dataVars, trainVars, modelVars, layerVars>>

\* what the actions of one part leave alone
attnFrame  == <<schedVars, dataVars, trainVars, modelVars, layerVars>>
schedFrame == <<attnVars, dataVars, trainVars, modelVars, layerVars>>
dataFrame  == <<attnVars, schedVars, trainVars, modelVars, layerVars>>
trainFrame == <<attnVars, dataVars, modelVars, layerVars>>
modelFrame == <<attnVars, schedVars, dataVars, trainVars, layerVars>>
layerFrame == <<attnVars, schedVars, dataVars, trainVars, modelVars>>

---------------------------------------------------------------------------
(* Bounds of the model *)
MaxLen == 3         \* longest sequence of a batch in SpecAttention
MaxTmax == 4        \* largest T_max of a scheduler
MaxSteps == 9       \* scheduler steps after construction in SpecScheduler
MaxData == 4        \* longest token sequence given to WikiDataset
MaxBlock == 2       \* largest block_size
MaxBatch == 2       \* largest batch size of the loader
MaxEpochs == 10     \* largest opt.epochs
MaxTrainBatches == 2    \* largest len(train_dataloader)
MaxEvalBatches == 2     \* largest len(valid_dataloader), len(test_dataloader)
MaxDModel == 4      \* largest opt.d_model
MaxHeads == 4       \* largest opt.heads
MaxLayers == 2      \* largest Decoder.N
MaxTrgLen == 2      \* longest token sequence given to Decoder.forward

---------------------------------------------------------------------------
(* Attention.  A score is a fixed-point number in units of 1e-9, so that   *)
(* the fill value 1e-9 of masked_fill is the integer 1; float('-inf') is   *)
(* the integer NegInf, below every score.                                  *)
NegInf   == -1000000
MaskFill == 1
ScoreVals == {-2000, 3000}

Idx(n) == 0 .. (n - 1)
EmptyTensor == [p \in {} |-> 0]

\* torch.triu(torch.ones(size, size) * float('-inf'), diagonal=1):
\* -inf strictly above the diagonal, 0 on and below it.
no_peak_mask(n) ==
    [p \in Idx(n) \X Idx(n) |-> IF p[2] - p[1] >= 1 THEN NegInf ELSE 0]

\* scores.masked_fill(mask == 0, 1e-9): the entries where mask == 0 are
\* overwritten by the fill value, the others are kept.  The mask is not
\* added to the scores.
masked_fill(sc, m) ==
    [p \in DOMAIN sc |-> IF m[p] = 0 THEN MaskFill ELSE sc[p]]

\* F.softmax(scores, dim=-1): the weight of (i, j) is exp(s_ij) / sum_j',
\* which is > 0 exactly when s_ij is not -inf.
softmax_support(sc) == {p \in DOMAIN sc : sc[p] # NegInf}

AttnIdleInit ==
    /\ a_pc = "idle" /\ size = 0 /\ mask = EmptyTensor
    /\ scores = EmptyTensor /\ softmax_in = EmptyTensor /\ attends = {}

AttnInit ==
    /\ a_pc = "start"
    /\ size \in 1 .. MaxLen
    /\ mask = EmptyTensor /\ scores = EmptyTensor
    /\ softmax_in = EmptyTensor /\ attends = {}

\* input_mask = no_peak_mask(input_text.size(1))
BuildMask ==
    /\ a_pc = "start"
    /\ mask' = no_peak_mask(size)
    /\ a_pc' = "mask"
    /\ UNCHANGED <<size, scores, softmax_in, attends>>
    /\ UNCHANGED attnFrame

\* scores = torch.matmul(q, k.transpose(-2, -1)) / math.sqrt(d_k)
ComputeScores ==
    /\ a_pc = "mask"
    /\ scores' \in [Idx(size) \X Idx(size) -> ScoreVals]
    /\ a_pc' = "scores"
    /\ UNCHANGED <<size, mask, softmax_in, attends>>
    /\ UNCHANGED attnFrame

\* if mask is not None: scores = scores.masked_fill(mask == 0, 1e-9)
ApplyMask ==
    /\ a_pc = "scores"
    /\ softmax_in' = masked_fill(scores, mask)
    /\ a_pc' = "masked"
    /\ UNCHANGED <<size, mask, scores, attends>>
    /\ UNCHANGED attnFrame

\* scores = F.softmax(scores, dim=-1)
Softmax ==
    /\ a_pc = "masked"
    /\ attends' = softmax_support(softmax_in)
    /\ a_pc' = "softmax"
    /\ UNCHANGED <<size, mask, scores, softmax_in>>
    /\ UNCHANGED attnFrame

---------------------------------------------------------------------------
(* CosineWithRestarts.  The float _cycle_factor and the parameter factor   *)
(* are exact fractions <<numerator, denominator>>.  A learning rate        *)
(*   eta_min + ((base - eta_min) / 2) * (cos(pi * c / len) + 1)            *)
(* with 0 <= c < len is kept as its phase c / len in lowest terms: the     *)
(* rate is a one-to-one function of the phase on [0, 1) when base differs  *)
(* from eta_min, and phase 0 is the base learning rate itself.             *)
RECURSIVE GCD(_, _)
GCD(a, b) == IF b = 0 THEN a ELSE GCD(b, a % b)

Phase(c, len) == LET g == GCD(len, c) IN <<c \div g, len \div g>>
BaseLr == <<0, 1>>

Factors == {<<1, 1>>, <<2, 1>>, <<1, 2>>, <<3, 2>>}

\* self._cycle_factor *= self.factor
RatMul(x, y) ==
    LET n == x[1] * y[1]
        d == x[2] * y[2]
        g == GCD(n, d)
    IN  <<n \div g, d \div g>>

\* int(self._cycle_factor * self.T_max), the factor being >= 0
IntOfProduct(x, t) == (x[1] * t) \div x[2]

SchedIdleInit ==
    /\ s_pc = "absent" /\ T_max = 1 /\ factor = <<1, 1>>
    /\ last_epoch = 0 /\ last_restart = 0 /\ cycle_counter = 0
    /\ cycle_factor = <<1, 1>> /\ updated_cycle_len = 1
    /\ initialized = FALSE /\ lr = BaseLr

\* __init__ up to the call of the base class constructor, last_epoch = -1
SchedInit ==
    /\ s_pc = "constructing"
    /\ T_max \in 1 .. MaxTmax
    /\ factor \in Factors
    /\ last_epoch = -1
    /\ last_restart = 0
    /\ cycle_counter = 0
    /\ cycle_factor = <<1, 1>>
    /\ updated_cycle_len = T_max
    /\ initialized = FALSE
    /\ lr = BaseLr

\* Mutant of GetLrFirst: the first query is also recorded as a restart.
GetLrFirst_RecordsRestart(le) ==
    /\ initialized' = TRUE
    /\ lr' = BaseLr
    /\ s_pc' = "running"
    /\ last_restart' = le + 1
    /\ UNCHANGED <<cycle_counter, cycle_factor, updated_cycle_len>>

\* get_lr, first call: if not self._initialized
GetLrFirst(le) ==
    /\ initialized' = TRUE
    /\ lr' = BaseLr
    /\ s_pc' = "running"
    /\ UNCHANGED <<last_restart, cycle_counter, cycle_factor, updated_cycle_len>>

\* get_lr on a zero cycle length: _cycle_counter is assigned, then the
\* modulo by _updated_cycle_len raises ZeroDivisionError
GetLrRaise(le) ==
    /\ cycle_counter' = (le + 1) - last_restart
    /\ s_pc' = "raised"
    /\ UNCHANGED <<initialized, lr, last_restart, cycle_factor, updated_cycle_len>>

\* Mutant of GetLrRunning: at a restart the cycle length is computed from
\* the cycle factor before it is multiplied.
GetLrRunning_StaleFactor(le) ==
    LET step == le + 1
        counter == step - last_restart
        c == counter % updated_cycle_len
    IN  /\ lr' = Phase(c, updated_cycle_len)
        /\ IF c = 0
           THEN /\ cycle_factor' = RatMul(cycle_factor, factor)
                /\ cycle_counter' = 0
                /\ updated_cycle_len' = IntOfProduct(cycle_factor, T_max)
                /\ last_restart' = step
           ELSE /\ cycle_counter' = counter
                /\ UNCHANGED <<cycle_factor, updated_cycle_len, last_restart>>
        /\ s_pc' = "running"
        /\ UNCHANGED initialized

\* get_lr, every later call with a cycle length >= 1
GetLrRunning(le) ==
    LET step == le + 1
        counter == step - last_restart
        c == counter % updated_cycle_len
    IN  /\ lr' = Phase(c, updated_cycle_len)
        /\ IF c = 0
           THEN /\ cycle_factor' = RatMul(cycle_factor, factor)
                /\ cycle_counter' = 0
                /\ updated_cycle_len' =
                      IntOfProduct(RatMul(cycle_factor, factor), T_max)
                /\ last_restart' = step
           ELSE /\ cycle_counter' = counter
                /\ UNCHANGED <<cycle_factor, updated_cycle_len, last_restart>>
        /\ s_pc' = "running"
        /\ UNCHANGED initialized

\* get_lr with self.last_epoch = le
get_lr(le) ==
    IF ~initialized THEN GetLrFirst(le)
    ELSE IF updated_cycle_len = 0 THEN GetLrRaise(le)
    ELSE GetLrRunning(le)

\* _LRScheduler.step(): self.last_epoch += 1, then the rates of get_lr()
\* are written to the optimizer
LRSchedulerStep ==
    /\ last_epoch' = last_epoch + 1
    /\ get_lr(last_epoch + 1)
    /\ UNCHANGED <<T_max, factor>>

\* super().__init__(optimizer, last_epoch): the base class takes one
\* initial step, which is the first get_lr query
InitialStep ==
    /\ s_pc = "constructing"
    /\ LRSchedulerStep
    /\ UNCHANGED schedFrame

\* opt.sched.step()
SchedulerStep ==
    /\ s_pc = "running"
    /\ last_epoch < MaxSteps
    /\ LRSchedulerStep
    /\ UNCHANGED schedFrame

---------------------------------------------------------------------------
(* WikiDataset, the shuffling DataLoader and collate_fn.  A Python list or *)
(* 1-d tensor is a sequence; Python index i is position i + 1.             *)
Tokens == {0, 5}
InputPad == 0
IgnoreIndex == -100

Min(a, b) == IF a <= b THEN a ELSE b
RECURSIVE MaxLenOf(_)
MaxLenOf(seqs) ==
    IF seqs = <<>> THEN 0
    ELSE LET m == MaxLenOf(Tail(seqs))
         IN  IF Len(Head(seqs)) >= m THEN Len(Head(seqs)) ELSE m

\* data[a:b] for 0 <= a, the end clipped to len(data)
Slice(s, a, b) == SubSeq(s, a + 1, Min(b, Len(s)))

\* range(0, n, step) as the number of its elements
RangeCount(n, step) == (n + step - 1) \div step

\* Mutant of WikiDataset_init: consecutive blocks do not overlap.
WikiDataset_init_Disjoint(d, bs) ==
    [k \in 1 .. RangeCount(Len(d), bs + 1) |->
        Slice(d, (k - 1) * (bs + 1), (k - 1) * (bs + 1) + bs + 1)]

\* Mutant of WikiDataset_init: the slice ends at i + block_size.
WikiDataset_init_NoExtraToken(d, bs) ==
    [k \in 1 .. RangeCount(Len(d), bs) |->
        Slice(d, (k - 1) * bs, (k - 1) * bs + bs)]

\* [data[i:i+block_size+1] for i in range(0, len(data), block_size)]
WikiDataset_init(d, bs) ==
    [k \in 1 .. RangeCount(Len(d), bs) |->
        Slice(d, (k - 1) * bs, (k - 1) * bs + bs + 1)]

\* __len__
WikiDataset_len == Len(blocks)

\* __getitem__(index): (text[:-1], text[1:])
WikiDataset_getitem(index) ==
    LET text == blocks[index + 1]
    IN  <<SubSeq(text, 1, Len(text) - 1), SubSeq(text, 2, Len(text))>>

\* pad_sequence(seqs, batch_first=True, padding_value=pv)
pad_sequence(seqs, pv) ==
    [k \in 1 .. Len(seqs) |->
        [j \in 1 .. MaxLenOf(seqs) |->
            IF j <= Len(seqs[k]) THEN seqs[k][j] ELSE pv]]

\* zip(*batch)
Unzip(b, side) == [k \in 1 .. Len(b) |-> b[k][side]]

\* Mutant of collate_fn: the targets are padded like the inputs.
collate_fn_SamePad(b) ==
    <<pad_sequence(Unzip(b, 1), InputPad), pad_sequence(Unzip(b, 2), InputPad)>>

collate_fn(b) ==
    <<pad_sequence(Unzip(b, 1), InputPad),
      pad_sequence(Unzip(b, 2), IgnoreIndex)>>

\* the orders a shuffling sampler can draw over n indices
Permutations(n) ==
    {p \in [1 .. n -> 0 .. (n - 1)] :
        \A a, b \in 1 .. n : a # b => p[a] # p[b]}

TokenSeqs == UNION {[1 .. n -> Tokens] : n \in 0 .. MaxData}

DataIdleInit ==
    /\ d_pc = "idle" /\ data = <<>> /\ block_size = 1 /\ batchsize = 1
    /\ blocks = <<>> /\ perm = <<>> /\ pos = 0 /\ batch = <<>>
    /\ inputs = <<>> /\ targets = <<>>

DataInit ==
    /\ d_pc = "new"
    /\ data \in TokenSeqs
    /\ block_size \in 1 .. MaxBlock
    /\ batchsize \in 1 .. MaxBatch
    /\ blocks = <<>> /\ perm = <<>> /\ pos = 0 /\ batch = <<>>
    /\ inputs = <<>> /\ targets = <<>>

\* WikiDataset(data, block_size=opt.seqlen)
NewDataset ==
    /\ d_pc = "new"
    /\ blocks' = WikiDataset_init(data, block_size)
    /\ d_pc' = "dataset"
    /\ UNCHANGED <<data, block_size, batchsize, perm, pos, batch, inputs, targets>>
    /\ UNCHANGED dataFrame

\* for ... in dataloader: the pass draws an order (shuffle=True)
LoaderIter ==
    /\ d_pc = "dataset"
    /\ WikiDataset_len > 0
    /\ perm' \in Permutations(WikiDataset_len)
    /\ pos' = 0
    /\ d_pc' = "iter"
    /\ UNCHANGED <<data, block_size, batchsize, blocks, batch, inputs, targets>>
    /\ UNCHANGED dataFrame

\* the next batch of the pass: the next batchsize indices (fewer at the
\* end), their examples, and collate_fn applied to them
NextBatch ==
    /\ d_pc \in {"iter", "collated"}
    /\ pos < Len(perm)
    /\ LET n == Min(batchsize, Len(perm) - pos)
           b == [k \in 1 .. n |-> WikiDataset_getitem(perm[pos + k])]
       IN  /\ batch' = b
           /\ inputs' = collate_fn(b)[1]
           /\ targets' = collate_fn(b)[2]
           /\ pos' = pos + n
    /\ d_pc' = "collated"
    /\ UNCHANGED <<data, block_size, batchsize, blocks, perm>>
    /\ UNCHANGED dataFrame

---------------------------------------------------------------------------
(* main, train_model, validate and test.  The loaders are not empty.  The  *)
(* scheduler exists (opt.sched) exactly when opt.SGDR is set; it is then   *)
(* the CosineWithRestarts above with the default factor, already           *)
(* constructed when train_model is entered.                                *)
SaveEvery == 5

TrainIdleInit ==
    /\ t_pc = "idle" /\ epochs = 0 /\ SGDR = FALSE
    /\ n_train = 1 /\ n_valid = 1 /\ n_test = 1
    /\ epoch = 0 /\ batch_i = 0 /\ eval_kind = "none" /\ eval_i = 0
    /\ mode = "train" /\ grads = "none" /\ params = 0 /\ opt_steps = 0
    /\ batch_trace = <<>> /\ validations = 0 /\ history = 0
    /\ checkpoints = {}

TrainInit ==
    /\ t_pc = "epoch_head"
    /\ epochs \in 0 .. MaxEpochs
    /\ SGDR \in BOOLEAN
    /\ n_train \in 1 .. MaxTrainBatches
    /\ n_valid \in 1 .. MaxEvalBatches
    /\ n_test \in 1 .. MaxEvalBatches
    /\ epoch = 0 /\ batch_i = 0 /\ eval_kind = "none" /\ eval_i = 0
    /\ mode = "train" /\ grads = "none" /\ params = 0 /\ opt_steps = 0
    /\ batch_trace = <<>> /\ validations = 0 /\ history = 0
    /\ checkpoints = {}

\* the scheduler as train_model finds it: opt.sched after its constructor
SchedBuiltInit ==
    /\ s_pc = "running"
    /\ T_max \in 1 .. MaxTmax
    /\ factor = <<1, 1>>
    /\ last_epoch = 0 /\ last_restart = 0 /\ cycle_counter = 0
    /\ cycle_factor = <<1, 1>> /\ updated_cycle_len = T_max
    /\ initialized = TRUE /\ lr = BaseLr

\* the variables a step of the training loop may leave alone
TrainKeep(changed) ==
    /\ IF "pc" \in changed THEN TRUE ELSE UNCHANGED t_pc
    /\ UNCHANGED <<epochs, SGDR, n_train, n_valid, n_test>>
    /\ IF "epoch" \in changed THEN TRUE ELSE UNCHANGED epoch
    /\ IF "batch_i" \in changed THEN TRUE ELSE UNCHANGED batch_i
    /\ IF "eval" \in changed THEN TRUE ELSE UNCHANGED <<eval_kind, eval_i>>
    /\ IF "mode" \in changed THEN TRUE ELSE UNCHANGED mode
    /\ IF "grads" \in changed THEN TRUE ELSE UNCHANGED grads
    /\ IF "update" \in changed THEN TRUE ELSE UNCHANGED <<params, opt_steps>>
    /\ IF "trace" \in changed THEN TRUE ELSE UNCHANGED batch_trace
    /\ IF "validations" \in changed THEN TRUE ELSE UNCHANGED validations
    /\ IF "history" \in changed THEN TRUE ELSE UNCHANGED history
    /\ IF "checkpoints" \in changed THEN TRUE ELSE UNCHANGED checkpoints
    /\ IF "sched" \in changed THEN TRUE ELSE UNCHANGED schedVars
    /\ UNCHANGED trainFrame

\* for epoch in range(opt.epochs): model.train(); total_tl = 0
EpochHead ==
    /\ t_pc = "epoch_head" /\ epoch < epochs
    /\ mode' = "train"
    /\ batch_i' = 0
    /\ t_pc' = "batch_head"
    /\ TrainKeep({"pc", "mode", "batch_i"})

\* the loop is exhausted: return the histories
TrainReturn ==
    /\ t_pc = "epoch_head" /\ epoch >= epochs
    /\ t_pc' = "returned"
    /\ TrainKeep({"pc"})

\* for input_text, target_text in train_dataloader: ... .to(device)
BatchHead ==
    /\ t_pc = "batch_head" /\ batch_i < n_train
    /\ batch_trace' = <<>>
    /\ t_pc' = "mask"
    /\ TrainKeep({"pc", "trace"})

\* input_mask = no_peak_mask(input_text.size(1)).to(device)
TrainMask ==
    /\ t_pc = "mask"
    /\ batch_trace' = Append(batch_trace, "mask")
    /\ t_pc' = "forward"
    /\ TrainKeep({"pc", "trace"})

\* output = model(input_text, input_mask)
TrainForward ==
    /\ t_pc = "forward"
    /\ batch_trace' = Append(batch_trace, "forward")
    /\ t_pc' = "loss"
    /\ TrainKeep({"pc", "trace"})

\* loss = loss_fn(output.view(-1, output.size(-1)), target_text.view(-1))
TrainLoss ==
    /\ t_pc = "loss"
    /\ batch_trace' = Append(batch_trace, "loss")
    /\ t_pc' = "zero_grad"
    /\ TrainKeep({"pc", "trace"})

\* optimizer.zero_grad()
ZeroGrad ==
    /\ t_pc = "zero_grad"
    /\ grads' = "zero"
    /\ batch_trace' = Append(batch_trace, "zero_grad")
    /\ t_pc' = "backward"
    /\ TrainKeep({"pc", "trace", "grads"})

\* loss.backward()
Backward ==
    /\ t_pc = "backward"
    /\ grads' = "loss"
    /\ batch_trace' = Append(batch_trace, "backward")
    /\ t_pc' = "optimizer_step"
    /\ TrainKeep({"pc", "trace", "grads"})

\* Mutant of AfterOptimizerStep: the scheduler is stepped whatever opt.SGDR.
AfterOptimizerStep_Always(sgdr) == "scheduler_step"

\* if opt.SGDR == True: opt.sched.step()
AfterOptimizerStep(sgdr) == IF sgdr = TRUE THEN "scheduler_step" ELSE "accumulate"

\* optimizer.step()
OptimizerStep ==
    /\ t_pc = "optimizer_step"
    /\ params' = params + 1
    /\ opt_steps' = opt_steps + 1
    /\ batch_trace' = Append(batch_trace, "optimizer_step")
    /\ t_pc' = AfterOptimizerStep(SGDR)
    /\ TrainKeep({"pc", "trace", "update"})

\* opt.sched.step(); without a scheduler opt.sched is no attribute
TrainSchedulerStep ==
    /\ t_pc = "scheduler_step"
    /\ IF s_pc = "running"
       THEN /\ LRSchedulerStep
            /\ batch_trace' = Append(batch_trace, "scheduler_step")
            /\ t_pc' = "accumulate"
       ELSE /\ t_pc' = "raised"
            /\ UNCHANGED <<schedVars, batch_trace>>
    /\ TrainKeep({"pc", "trace", "sched"})

\* total_tl += loss.item()
Accumulate ==
    /\ t_pc = "accumulate"
    /\ batch_i' = batch_i + 1
    /\ t_pc' = "batch_head"
    /\ TrainKeep({"pc", "batch_i"})

\* avg_tl, train_perplexity; validate(...): model.eval(); total_loss = 0
ValidateEnter ==
    /\ t_pc = "batch_head" /\ batch_i >= n_train
    /\ eval_kind' = "validate" /\ eval_i' = 0
    /\ mode' = "eval"
    /\ t_pc' = "eval_head"
    /\ TrainKeep({"pc", "eval", "mode"})

\* the loader an evaluation pass runs over
EvalLen == IF eval_kind = "test" THEN n_test ELSE n_valid

\* with torch.no_grad(): for input_text, target_text in dataloader
EvalBatchHead ==
    /\ t_pc = "eval_head" /\ eval_i < EvalLen
    /\ t_pc' = "eval_mask"
    /\ TrainKeep({"pc"})

\* input_mask = no_peak_mask(input_text.size(1)).to(device)
EvalMask ==
    /\ t_pc = "eval_mask"
    /\ t_pc' = "eval_forward"
    /\ TrainKeep({"pc"})

\* output = model(input_text, input_mask)
EvalForward ==
    /\ t_pc = "eval_forward"
    /\ t_pc' = "eval_loss"
    /\ TrainKeep({"pc"})

\* Mutant of EvalLossStep: the body of the training loop, with its
\* backward pass and optimizer step, copied into the evaluation loop.
EvalLossStep_Trains ==
    /\ grads' = "loss"
    /\ params' = params + 1
    /\ opt_steps' = opt_steps + 1
    /\ UNCHANGED schedVars

\* loss = loss_fn(...); total_loss += loss.item(), under torch.no_grad()
EvalLossStep ==
    /\ UNCHANGED <<grads, params, opt_steps>>
    /\ UNCHANGED schedVars

EvalLoss ==
    /\ t_pc = "eval_loss"
    /\ EvalLossStep
    /\ eval_i' = eval_i + 1
    /\ UNCHANGED eval_kind
    /\ t_pc' = "eval_head"
    /\ TrainKeep({"pc", "eval", "grads", "update", "sched"})

\* validate returns avg_loss, perplexity to train_model
ValidateReturn ==
    /\ t_pc = "eval_head" /\ eval_kind = "validate" /\ eval_i >= EvalLen
    /\ validations' = validations + 1
    /\ eval_kind' = "none" /\ eval_i' = 0
    /\ t_pc' = "append"
    /\ TrainKeep({"pc", "eval", "validations"})

\* train_losses.append(avg_tl) ... valid_perplexities.append(...); prints
AppendHistory ==
    /\ t_pc = "append"
    /\ history' = history + 1
    /\ t_pc' = "checkpoint"
    /\ TrainKeep({"pc", "history"})

\* Mutant of ShouldSave: the test is made on the 0-based epoch.
ShouldSave_ZeroBased(e) == e % SaveEvery = 0

\* if (epoch + 1) % 5 == 0
ShouldSave(e) == (e + 1) % SaveEvery = 0

\* torch.save(model.state_dict(), .../model_epoch_{epoch+1}.pth); the loop
\* goes to its next epoch
Checkpoint ==
    /\ t_pc = "checkpoint"
    /\ checkpoints' = IF ShouldSave(epoch) THEN checkpoints \cup {epoch + 1}
                      ELSE checkpoints
    /\ epoch' = epoch + 1
    /\ t_pc' = "epoch_head"
    /\ TrainKeep({"pc", "epoch", "checkpoints"})

\* main: plot_metrics(...); test(model, opt, test_dataloader, loss_fn):
\* model.eval(); total_loss = 0
TestEnter ==
    /\ t_pc = "returned"
    /\ eval_kind' = "test" /\ eval_i' = 0
    /\ mode' = "eval"
    /\ t_pc' = "eval_head"
    /\ TrainKeep({"pc", "eval", "mode"})

\* test returns avg_loss, perplexity; main prints them
TestReturn ==
    /\ t_pc = "eval_head" /\ eval_kind = "test" /\ eval_i >= EvalLen
    /\ eval_kind' = "none" /\ eval_i' = 0
    /\ t_pc' = "finished"
    /\ TrainKeep({"pc", "eval"})

---------------------------------------------------------------------------
(* get_model and the constructors under Transformer(...).  opt.dropout is  *)
(* a rate >= 0 kept in tenths, so that 1 is DropoutOne.                    *)
DropoutOne == 10
Dropouts == {0, 1, 9, 10, 15}

ModelIdleInit ==
    /\ g_pc = "idle" /\ d_model = 1 /\ heads = 1 /\ dropout = 0
    /\ loadname = FALSE /\ ckpt_matches = FALSE /\ built = FALSE
    /\ ckpt_read = FALSE /\ params_init = FALSE /\ error = "none"

ModelInit ==
    /\ g_pc = "assert_heads"
    /\ d_model \in 1 .. MaxDModel
    /\ heads \in 1 .. MaxHeads
    /\ dropout \in Dropouts
    /\ loadname \in BOOLEAN
    /\ ckpt_matches \in BOOLEAN
    /\ loadname \/ ~ckpt_matches
    /\ built = FALSE /\ ckpt_read = FALSE /\ params_init = FALSE
    /\ error = "none"

\* a statement of get_model either goes on to `next` or raises `exc`
Proceed(ok, next, exc) ==
    /\ g_pc' = IF ok THEN next ELSE "fatal"
    /\ error' = IF ok THEN error ELSE exc

\* assert opt.d_model % opt.heads == 0
AssertHeads ==
    /\ g_pc = "assert_heads"
    /\ Proceed(d_model % heads = 0, "assert_dropout", "AssertionError")
    /\ UNCHANGED <<d_model, heads, dropout, loadname, ckpt_matches, built,
                   ckpt_read, params_init>>
    /\ UNCHANGED modelFrame

\* assert opt.dropout < 1
AssertDropout ==
    /\ g_pc = "assert_dropout"
    /\ Proceed(dropout < DropoutOne, "embed", "AssertionError")
    /\ UNCHANGED <<d_model, heads, dropout, loadname, ckpt_matches, built,
                   ckpt_read, params_init>>
    /\ UNCHANGED modelFrame

\* Transformer.__init__ -> Decoder.__init__: self.embed = Embedder(...)
ConstructEmbedder ==
    /\ g_pc = "embed"
    /\ Proceed(TRUE, "pe_dropout", "none")
    /\ UNCHANGED <<d_model, heads, dropout, loadname, ckpt_matches, built,
                   ckpt_read, params_init>>
    /\ UNCHANGED modelFrame

\* PositionalEncoder.__init__: self.dropout = nn.Dropout(dropout), which
\* raises ValueError unless 0 <= dropout <= 1
ConstructPeDropout ==
    /\ g_pc = "pe_dropout"
    /\ Proceed(0 <= dropout /\ dropout <= DropoutOne, "pe_table", "ValueError")
    /\ UNCHANGED <<d_model, heads, dropout, loadname, ckpt_matches, built,
                   ckpt_read, params_init>>
    /\ UNCHANGED modelFrame

\* the columns written by: for i in range(0, d_model, 2):
\*     pe[pos, i] = ...; pe[pos, i + 1] = ...
PeColumns(d) == UNION {{i, i + 1} : i \in {j \in 0 .. (d - 1) : j % 2 = 0}}

\* PositionalEncoder.__init__: pe = torch.zeros(max_seq_len, d_model) and
\* the loop, which raises IndexError on a column >= d_model
ConstructPeTable ==
    /\ g_pc = "pe_table"
    /\ Proceed(\A c \in PeColumns(d_model) : c < d_model, "layers", "IndexError")
    /\ UNCHANGED <<d_model, heads, dropout, loadname, ckpt_matches, built,
                   ckpt_read, params_init>>
    /\ UNCHANGED modelFrame

\* the decoder layers (d_k = d_model // heads), the final Norm, the output
\* Linear: model = Transformer(...); model.to(opt.device)
ConstructLayers ==
    /\ g_pc = "layers"
    /\ built' = TRUE
    /\ Proceed(TRUE, "params", "none")
    /\ UNCHANGED <<d_model, heads, dropout, loadname, ckpt_matches,
                   ckpt_read, params_init>>
    /\ UNCHANGED modelFrame

\* if opt.loadname is not None: model.load_state_dict(torch.load(...)),
\* which raises RuntimeError on a file that does not fit
LoadWeights ==
    /\ g_pc = "params" /\ loadname
    /\ ckpt_read' = TRUE
    /\ Proceed(ckpt_matches, "returned", "RuntimeError")
    /\ UNCHANGED <<d_model, heads, dropout, loadname, ckpt_matches, built,
                   params_init>>
    /\ UNCHANGED modelFrame

\* else: nn.init.xavier_uniform_(p) for every p with p.dim() > 1
XavierInit ==
    /\ g_pc = "params" /\ ~loadname
    /\ params_init' = TRUE
    /\ Proceed(TRUE, "returned", "none")
    /\ UNCHANGED <<d_model, heads, dropout, loadname, ckpt_matches, built,
                   ckpt_read>>
    /\ UNCHANGED modelFrame

---------------------------------------------------------------------------
(* Decoder.forward and DecoderLayer.forward.  A tensor is kept as the list *)
(* of the modules applied to the token ids to obtain it, in order; a       *)
(* module of layer i (a deep copy of its own) is [layer |-> i, sub |-> s], *)
(* a module of the decoder itself has layer 0.  An attention module is     *)
(* always called as attn(x2, x2, x2, trg_mask).                            *)
Module(i, sub) == [layer |-> i, sub |-> sub]
Apply(t, i, sub) == Append(t, Module(i, sub))

LayerIdleInit ==
    /\ l_pc = "idle" /\ trg = <<>> /\ N = 0 /\ layer_i = 0
    /\ x_in = <<>> /\ x_loc = <<>> /\ x2_loc = <<>>

LayerInit ==
    /\ l_pc = "embed"
    /\ trg \in UNION {[1 .. n -> Tokens] : n \in 1 .. MaxTrgLen}
    /\ N \in 0 .. MaxLayers
    /\ layer_i = 0
    /\ x_in = <<>> /\ x_loc = <<>> /\ x2_loc = <<>>

\* Decoder.forward: x = self.embed(trg)
DecoderEmbed ==
    /\ l_pc = "embed"
    /\ x_loc' = Apply(<<>>, 0, "embed")
    /\ l_pc' = "pe"
    /\ UNCHANGED <<trg, N, layer_i, x_in, x2_loc>>
    /\ UNCHANGED layerFrame

\* Decoder.forward: x = self.pe(x)
DecoderPe ==
    /\ l_pc = "pe"
    /\ x_loc' = Apply(x_loc, 0, "pe")
    /\ l_pc' = "loop"
    /\ UNCHANGED <<trg, N, layer_i, x_in, x2_loc>>
    /\ UNCHANGED layerFrame

\* for i in range(self.N): x = self.layers[i](x, trg_mask), the call
LayerCall ==
    /\ l_pc = "loop" /\ layer_i < N
    /\ layer_i' = layer_i + 1
    /\ x_in' = x_loc
    /\ l_pc' = "norm_1"
    /\ UNCHANGED <<trg, N, x_loc, x2_loc>>
    /\ UNCHANGED layerFrame

\* DecoderLayer.forward: x2 = self.norm_1(x)
LayerNorm1 ==
    /\ l_pc = "norm_1"
    /\ x2_loc' = Apply(x_loc, layer_i, "norm_1")
    /\ l_pc' = "attn_first"
    /\ UNCHANGED <<trg, N, layer_i, x_in, x_loc>>
    /\ UNCHANGED layerFrame

\* DecoderLayer.forward: x = self.dropout_1(self.attn_1(x2, x2, x2, trg_mask))
LayerAttnFirst ==
    /\ l_pc = "attn_first"
    /\ x_loc' = Apply(Apply(x2_loc, layer_i, "attn_1"), layer_i, "dropout_1")
    /\ l_pc' = "norm_2"
    /\ UNCHANGED <<trg, N, layer_i, x_in, x2_loc>>
    /\ UNCHANGED layerFrame

\* DecoderLayer.forward: x2 = self.norm_2(x)
LayerNorm2 ==
    /\ l_pc = "norm_2"
    /\ x2_loc' = Apply(x_loc, layer_i, "norm_2")
    /\ l_pc' = "attn_second"
    /\ UNCHANGED <<trg, N, layer_i, x_in, x_loc>>
    /\ UNCHANGED layerFrame

\* DecoderLayer.forward, the last assignment:
\* x = self.dropout_1(self.attn_1(x2, x2, x2, trg_mask))
LayerAttnSecond ==
    /\ l_pc = "attn_second"
    /\ x_loc' = Apply(Apply(x2_loc, layer_i, "attn_1"), layer_i, "dropout_1")
    /\ l_pc' = "layer_return"
    /\ UNCHANGED <<trg, N, layer_i, x_in, x2_loc>>
    /\ UNCHANGED layerFrame

\* DecoderLayer.forward: return x, back in the loop of Decoder.forward
LayerReturn ==
    /\ l_pc = "layer_return"
    /\ l_pc' = "loop"
    /\ UNCHANGED <<trg, N, layer_i, x_in, x_loc, x2_loc>>
    /\ UNCHANGED layerFrame

\* Decoder.forward: return self.norm(x)
DecoderNorm ==
    /\ l_pc = "loop" /\ layer_i >= N
    /\ x_loc' = Apply(x_loc, 0, "norm")
    /\ l_pc' = "returned"
    /\ UNCHANGED <<trg, N, layer_i, x_in, x2_loc>>
    /\ UNCHANGED layerFrame

---------------------------------------------------------------------------
(* Specifications *)
InitAttention == AttnInit /\ SchedIdleInit /\ DataIdleInit /\ TrainIdleInit /\ ModelIdleInit /\ LayerIdleInit
NextAttention == BuildMask \/ ComputeScores \/ ApplyMask \/ Softmax
SpecAttention == InitAttention /\ [][NextAttention]_vars

InitScheduler == SchedInit /\ AttnIdleInit /\ DataIdleInit /\ TrainIdleInit /\ ModelIdleInit /\ LayerIdleInit
NextScheduler == InitialStep \/ SchedulerStep
SpecScheduler == InitScheduler /\ [][NextScheduler]_vars

InitDataset == DataInit /\ AttnIdleInit /\ SchedIdleInit /\ TrainIdleInit /\ ModelIdleInit /\ LayerIdleInit
NextDataset == NewDataset \/ LoaderIter \/ NextBatch
SpecDataset == InitDataset /\ [][NextDataset]_vars

InitTrain ==
    /\ TrainInit /\ AttnIdleInit /\ DataIdleInit /\ ModelIdleInit /\ LayerIdleInit
    /\ IF SGDR THEN SchedBuiltInit ELSE SchedIdleInit
NextTrain ==
    \/ EpochHead \/ TrainReturn \/ BatchHead
    \/ TrainMask \/ TrainForward \/ TrainLoss
    \/ ZeroGrad \/ Backward \/ OptimizerStep \/ TrainSchedulerStep
    \/ Accumulate
    \/ ValidateEnter \/ EvalBatchHead \/ EvalMask \/ EvalForward \/ EvalLoss
    \/ ValidateReturn \/ AppendHistory \/ Checkpoint
    \/ TestEnter \/ TestReturn
SpecTrain == InitTrain /\ [][NextTrain]_vars

InitGetModel ==
    /\ ModelInit /\ AttnIdleInit /\ SchedIdleInit /\ DataIdleInit
    /\ TrainIdleInit /\ LayerIdleInit
NextGetModel ==
    \/ AssertHeads \/ AssertDropout \/ ConstructEmbedder
    \/ ConstructPeDropout \/ ConstructPeTable \/ ConstructLayers
    \/ LoadWeights \/ XavierInit
SpecGetModel == InitGetModel /\ [][NextGetModel]_vars

InitDecoder ==
    /\ LayerInit /\ AttnIdleInit /\ SchedIdleInit /\ DataIdleInit
    /\ TrainIdleInit /\ ModelIdleInit
NextDecoder ==
    \/ DecoderEmbed \/ DecoderPe \/ LayerCall
    \/ LayerNorm1 \/ LayerAttnFirst \/ LayerNorm2 \/ LayerAttnSecond
    \/ LayerReturn \/ DecoderNorm
SpecDecoder == InitDecoder /\ [][NextDecoder]_vars

---------------------------------------------------------------------------
(* Claims *)
(* C1: with the mask of no_peak_mask and attention, every score (i, j)     *)
(* with j > i is suppressed before softmax (replaced by the fill value or  *)
(* -inf), every score with j <= i reaches softmax unmodified, and after    *)
(* softmax position i attends only to positions j <= i.                    *)
C1_CausalMasking ==
    /\ a_pc \in {"masked", "softmax"} =>
         \A p \in DOMAIN scores :
            IF p[2] > p[1]
            THEN softmax_in[p] \in {NegInf, MaskFill}
            ELSE softmax_in[p] = scores[p]
    /\ a_pc = "softmax" => \A p \in attends : p[2] <= p[1]

\* the in-cycle position (step - last_restart) mod current_cycle_len of the
\* last query: a restart leaves the counter at 0, any other query leaves
\* the counter and the cycle length as the query read them
InCyclePos == cycle_counter % updated_cycle_len

(* C2: with factor = 1, after exactly T_max scheduler steps following      *)
(* construction the in-cycle position is 0 and the returned learning rate  *)
(* is the base learning rate.                                              *)
C2_FullCycleAfterTmax ==
    (s_pc = "running" /\ factor = <<1, 1>> /\ last_epoch = T_max) =>
        (InCyclePos = 0 /\ lr = BaseLr)

(* C3: the first get_lr query returns the base learning rates, moves the   *)
(* scheduler from uninitialized to initialized and leaves last_restart,    *)
(* the cycle counter, the cycle factor and the cycle length unchanged;     *)
(* initialized never goes back to false.                                   *)
C3_FirstQuery ==
    [][ /\ (initialized => initialized')
        /\ (s_pc = "constructing" /\ s_pc' # "constructing") =>
              (~initialized /\ initialized')
        /\ (~initialized /\ last_epoch' # last_epoch) =>
              /\ initialized'
              /\ lr' = BaseLr
              /\ UNCHANGED <<last_restart, cycle_counter, cycle_factor,
                             updated_cycle_len>> ]_vars

C3_Witness ==
    s_pc = "running" /\ initialized /\ last_epoch = 0 /\ lr = BaseLr

(* C4: on every running-state query that computes c = (step -              *)
(* last_restart) mod current_cycle_len, with step = last_epoch + 1: if     *)
(* c = 0 the cycle factor is multiplied by factor, the counter is reset to *)
(* 0, the cycle length becomes floor(cycle_factor * T_max) and             *)
(* last_restart becomes step; otherwise cycle factor, cycle length and     *)
(* last_restart are unchanged.                                             *)
C4_RestartUpdate ==
    [][ (initialized /\ updated_cycle_len > 0 /\ last_epoch' = last_epoch + 1) =>
          LET step == last_epoch' + 1
              c == (step - last_restart) % updated_cycle_len
          IN  IF c = 0
              THEN /\ cycle_factor'[1] * cycle_factor[2] * factor[2]
                        = cycle_factor[1] * factor[1] * cycle_factor'[2]
                   /\ cycle_counter' = 0
                   /\ updated_cycle_len' * cycle_factor'[2]
                        <= cycle_factor'[1] * T_max
                   /\ cycle_factor'[1] * T_max
                        < (updated_cycle_len' + 1) * cycle_factor'[2]
                   /\ last_restart' = step
              ELSE UNCHANGED <<cycle_factor, updated_cycle_len, last_restart>>
      ]_vars

C4_Witness ==
    /\ s_pc = "running" /\ factor # <<1, 1>>
    /\ last_restart > 0 /\ updated_cycle_len # T_max
    /\ cycle_counter > 0

\* the indices of the dataset, 0 .. len(dataset) - 1
DatasetIndices == 0 .. (WikiDataset_len - 1)

(* C5 as stated: every example of the dataset is cut from a block of       *)
(* block_size + 1 tokens, so that len(input) = len(target) = block_size.   *)
C5_EveryExampleFull ==
    d_pc \in {"dataset", "iter", "collated"} =>
        \A i \in DatasetIndices :
            /\ Len(blocks[i + 1]) = block_size + 1
            /\ Len(WikiDataset_getitem(i)[1]) = block_size
            /\ Len(WikiDataset_getitem(i)[2]) = block_size

(* C5 amended: every example is its block without the last token (input)   *)
(* and without the first token (target), of equal lengths; the block of    *)
(* index i starts at token i * block_size; every example but the last has  *)
(* block_size + 1 tokens in its block and length block_size, and the last  *)
(* example has the len(data) - 1 - i * block_size < block_size remaining.  *)
C5_ExampleLengths ==
    d_pc \in {"dataset", "iter", "collated"} =>
        /\ WikiDataset_len * block_size >= Len(data)
        /\ (WikiDataset_len - 1) * block_size < Len(data) \/ WikiDataset_len = 0
        /\ \A i \in DatasetIndices :
            LET ex == WikiDataset_getitem(i)
                n == Len(ex[1])
            IN  /\ Len(ex[2]) = n
                /\ Len(blocks[i + 1]) = n + 1
                /\ \A j \in 1 .. n :
                      /\ ex[1][j] = data[i * block_size + j]
                      /\ ex[2][j] = data[i * block_size + j + 1]
                /\ i < WikiDataset_len - 1 => n = block_size
                /\ i = WikiDataset_len - 1 =>
                      /\ n = Len(data) - 1 - i * block_size
                      /\ n < block_size

C5_Witness ==
    /\ d_pc = "dataset" /\ WikiDataset_len >= 2
    /\ Len(blocks[1]) = block_size + 1
    /\ Len(blocks[WikiDataset_len]) <= block_size

(* C6: collate_fn returns inputs and targets with one row per example, all *)
(* of the length M of the longest example of the batch; row k holds the    *)
(* tokens of example k in its first len_k positions, then 0 (inputs) or    *)
(* -100 (targets); -100 is no token id; a batch of equal-length examples   *)
(* comes out as the examples themselves.                                   *)
C6_Collate ==
    d_pc = "collated" =>
        LET n == Len(batch)
            M == MaxLenOf(Unzip(batch, 1))
        IN  /\ n >= 1
            /\ Len(inputs) = n /\ Len(targets) = n
            /\ \E k \in 1 .. n : Len(batch[k][1]) = M
            /\ \A k \in 1 .. n :
                  /\ Len(batch[k][1]) <= M
                  /\ Len(inputs[k]) = M /\ Len(targets[k]) = M
                  /\ \A j \in 1 .. M :
                        IF j <= Len(batch[k][1])
                        THEN /\ inputs[k][j] = batch[k][1][j]
                             /\ targets[k][j] = batch[k][2][j]
                             /\ targets[k][j] # IgnoreIndex
                        ELSE /\ inputs[k][j] = 0
                             /\ targets[k][j] = -100
            /\ (\A k \in 1 .. n : Len(batch[k][1]) = M) =>
                  /\ inputs = Unzip(batch, 1)
                  /\ targets = Unzip(batch, 2)

C6_Witness ==
    /\ d_pc = "collated" /\ Len(batch) >= 2
    /\ \E k \in 1 .. Len(batch) :
          /\ Len(batch[k][1]) < Len(inputs[k])
          /\ targets[k][Len(targets[k])] = -100
          /\ inputs[k][Len(inputs[k])] = 0

\* the steps of one training batch, in the order of the loop body
BatchOrder ==
    <<"mask", "forward", "loss", "zero_grad", "backward", "optimizer_step">>
        \o (IF SGDR THEN <<"scheduler_step">> ELSE <<>>)

IsPrefix(a, b) == Len(a) <= Len(b) /\ a = SubSeq(b, 1, Len(a))

\* the training batches taken from the loader so far, over all epochs
BatchesStarted ==
    IF t_pc \in {"epoch_head", "returned", "finished"} \/ eval_kind = "test"
    THEN epoch * n_train
    ELSE epoch * n_train + batch_i
           + (IF t_pc \in {"mask", "forward", "loss", "zero_grad", "backward",
                           "optimizer_step", "scheduler_step", "accumulate"}
              THEN 1 ELSE 0)

\* the current batch has not reached its optimizer step yet
UpdatePending ==
    t_pc \in {"mask", "forward", "loss", "zero_grad", "backward",
              "optimizer_step"}

(* C7 as stated: the steps of a batch occur in the order mask, forward,    *)
(* loss, zero gradients, backpropagate, optimizer step, scheduler step,    *)
(* and at every point of a run the number of scheduler steps equals the    *)
(* number of completed optimizer updates (SGDR enabled) or is 0 (SGDR      *)
(* disabled).                                                              *)
C7_StepsEqualAtEveryPoint ==
    /\ IsPrefix(batch_trace, BatchOrder)
    /\ t_pc = "accumulate" => batch_trace = BatchOrder
    /\ SGDR => last_epoch = opt_steps
    /\ ~SGDR => last_epoch = 0

(* C7 amended: the same order; the scheduler is stepped once after each    *)
(* optimizer step when SGDR is enabled and never when it is disabled; the  *)
(* number of scheduler steps equals the number of completed optimizer      *)
(* updates at every point of a run except between the optimizer step of a  *)
(* batch and its scheduler step, where it is one less (enabled), and is 0  *)
(* at every point (disabled).                                              *)
C7_StepOrderAndCount ==
    /\ t_pc # "raised"
    /\ IsPrefix(batch_trace, BatchOrder)
    /\ t_pc = "accumulate" => batch_trace = BatchOrder
    /\ SGDR => /\ s_pc = "running"
               /\ t_pc # "scheduler_step" => last_epoch = opt_steps
               /\ t_pc = "scheduler_step" => last_epoch = opt_steps - 1
    /\ ~SGDR => /\ s_pc = "absent" /\ last_epoch = 0
                /\ t_pc # "scheduler_step"
    /\ opt_steps = BatchesStarted - (IF UpdatePending THEN 1 ELSE 0)

C7_Witness ==
    /\ SGDR /\ t_pc = "accumulate" /\ opt_steps >= 3
    /\ last_epoch = opt_steps
    /\ batch_trace[Len(batch_trace)] = "scheduler_step"

(* C8: the parameters are saved at the end of the k-th epoch (1-based),    *)
(* after that epoch's validation pass, if and only if k is a multiple of   *)
(* 5, to a file named by k; a completed run has written floor(E/5)         *)
(* checkpoints, none when E < 5.                                           *)
C8_Checkpoints ==
    /\ checkpoints = {k \in 1 .. epoch : k % 5 = 0}
    /\ \A k \in checkpoints : validations >= k /\ history >= k
    /\ t_pc \in {"returned", "finished"} \/ eval_kind = "test" =>
          /\ epoch = epochs
          /\ Cardinality(checkpoints) = epochs \div 5
          /\ epochs < 5 => checkpoints = {}

C8_Witness ==
    t_pc = "returned" /\ epochs >= 10 /\ checkpoints = {5, 10}

(* C9: a validation pass runs exactly once after the training batches of   *)
(* every epoch, and no step of validate or test changes the model          *)
(* parameters, the optimizer state or the scheduler state.                 *)
C9_EvalFrame ==
    /\ [](/\ validations = epoch + (IF t_pc \in {"append", "checkpoint"}
                                    THEN 1 ELSE 0)
          /\ eval_kind = "validate" => batch_i = n_train /\ validations = epoch
          /\ t_pc \in {"mask", "forward", "loss", "zero_grad", "backward",
                       "optimizer_step", "scheduler_step", "accumulate"}
                => validations = epoch /\ eval_kind = "none")
    /\ [][ (eval_kind # "none" \/ eval_kind' # "none") =>
              UNCHANGED <<params, opt_steps, grads, schedVars>> ]_vars

C9_Witness ==
    /\ t_pc = "finished" /\ validations >= 2 /\ SGDR
    /\ opt_steps >= 2 /\ params = opt_steps /\ last_epoch = opt_steps

\* the configurations the construction contract rejects
BadConfig == d_model % heads # 0 \/ dropout >= DropoutOne

\* get_model has ended in an error raised before a model existed
ConstructionRejected == g_pc = "fatal" /\ ~built

(* C10: get_model ends in a fatal construction error, before any model is  *)
(* built, any checkpoint read or any parameter initialized, exactly when   *)
(* d_model % heads # 0 or dropout >= 1; no configuration with              *)
(* d_model % heads = 0 and dropout < 1 is rejected.                        *)
C10_RejectedIffBadConfig ==
    /\ BadConfig => ~built /\ ~ckpt_read /\ ~params_init
    /\ (BadConfig /\ g_pc \in {"fatal", "returned"}) => ConstructionRejected
    /\ ConstructionRejected => BadConfig /\ ~ckpt_read /\ ~params_init

(* C11: one forward call of a DecoderLayer applies to its input exactly    *)
(* normalize, self-attention with the causal mask, dropout, each once,     *)
(* with no residual add-back, cross-attention or feed-forward: its output  *)
(* is the dropout of the self-attention of the normalized input.           *)
C11_LayerAppliesEachOnce ==
    l_pc = "layer_return" =>
        x_loc = x_in \o <<Module(layer_i, "norm_1"), Module(layer_i, "attn_1"),
                      Module(layer_i, "dropout_1")>>

\* the corpus positions 0 .. n - 1 held by each block: WikiDataset built
\* on the corpus whose token at position p is p
PositionBlocks ==
    WikiDataset_init([p \in 1 .. Len(data) |-> p - 1], block_size)

SeqRange(q) == {q[j] : j \in 1 .. Len(q)}

\* the (block, place) pairs at which corpus position p is a target: a
\* target is every token of a block but its first
TargetPlaces(p) ==
    {kj \in (1 .. Len(PositionBlocks)) \X (2 .. (block_size + 1)) :
        /\ kj[2] <= Len(PositionBlocks[kj[1]])
        /\ PositionBlocks[kj[1]][kj[2]] = p}

(* C12: for a token sequence of length n >= 1, consecutive blocks of       *)
(* WikiDataset overlap by exactly one token; over the whole dataset each   *)
(* corpus position 1 .. n - 1 is a target exactly once and position 0      *)
(* never; in every example target[j] is the corpus token that follows      *)
(* input[j].                                                               *)
C12_TargetsCoverOnce ==
    (d_pc \in {"dataset", "iter", "collated"} /\ Len(data) >= 1) =>
        /\ Len(PositionBlocks) = WikiDataset_len
        /\ \A k \in 1 .. WikiDataset_len :
              /\ Len(PositionBlocks[k]) = Len(blocks[k])
              /\ \A j \in 1 .. Len(blocks[k]) :
                    blocks[k][j] = data[PositionBlocks[k][j] + 1]
        /\ \A k \in 1 .. (WikiDataset_len - 1) :
              Cardinality(SeqRange(PositionBlocks[k])
                            \cap SeqRange(PositionBlocks[k + 1])) = 1
        /\ \A p \in 1 .. (Len(data) - 1) : Cardinality(TargetPlaces(p)) = 1
        /\ TargetPlaces(0) = {}
        /\ \A i \in DatasetIndices :
              LET ex == WikiDataset_getitem(i)
              IN  \A j \in 1 .. Len(ex[1]) :
                     /\ ex[1][j] = data[PositionBlocks[i + 1][j] + 1]
                     /\ ex[2][j] = data[PositionBlocks[i + 1][j] + 2]

C12_Witness ==
    /\ d_pc = "collated" /\ WikiDataset_len >= 2 /\ block_size >= 2
    /\ blocks[1][Len(blocks[1])] # blocks[1][1]
    /\ blocks[2][1] = blocks[1][Len(blocks[1])]

=============================================================================
